---- MODULE Spec2Model ----
(***************************************************************************)
(* A model of const-arrayvec: ArrayVec<T, N> (src/src/lib.rs) and its      *)
(* range-removal iterator Drain (src/src/drain.rs).                        *)
(*                                                                         *)
(* The backing array is a function from slot index to the bits the slot    *)
(* holds.  Elements are unique identities 1, 2, 3, ... so that ownership   *)
(* can be followed: for every element the model counts how often the       *)
(* vector gave it up (moved it out, or ran its destructor).  Uninit stands *)
(* for indeterminate bits (a slot that was never written, or memory past   *)
(* the end of the array); it is never equal to an element.                 *)
(***************************************************************************)
EXTENDS Integers, Sequences, FiniteSets, TLC

\* ------------------------------------------------------------------ bounds
\* The capacity N of ArrayVec<T, N>.
N == 3
\* How many distinct elements the caller ever places in the vector.
MaxElems == 3
\* size_of::<T>() in bytes (Drain keeps head and tail as addresses).
SizeOfT == 2
\* The longest slice offered to try_extend_from_slice.
MaxSlice == 2
\* The largest length a drain is started towards (release builds can leave
\* the vector longer than its capacity; this keeps the lengths finite).
MaxLen == 4
\* The capacity of the second vector that equality compares with.
M == 2

\* How many times over the vector's life the caller goes beyond the basic
\* operations: drain cursors created and raw steps taken (a direct call of
\* set_len or push_unchecked, a write through &mut [T]), counted together.
MaxDrains == 1
\* The ownership counters saturate here (0, 1, "more than once").
MaxCount == 2
\* The width of usize in bits.
UsizeBits == 16

\* ------------------------------------------------------------------- state
VARIABLES
  items,      \* ArrayVec.items: slot index -> bits held
  length,     \* ArrayVec.length
  init,       \* the slots that currently hold an owned, initialized value
  pc,         \* "alive", "panicked" (a panic unwinds), "dropped", "aborted"
              \* (the process was aborted), or inside an operation that is
              \* taken step by step: "popping", "truncating"
  build,      \* the build profile as far as the run has shown it: "unknown"
              \* until a debug assertion fails ("debug") or is seen to be
              \* compiled out ("release")
  drain,      \* the Drain cursor, if any
  nextId,     \* the next element the caller creates
  released,   \* element -> how often the vector gave it up: moved out to
              \* the caller, or its destructor run
  badRead,    \* some operation read a slot that was out of bounds or not owned
  badWrite,   \* some operation wrote outside the array
  orig,       \* the vector as it was when the current drain was created
  yields,     \* what the current drain has yielded so far
  drains,     \* how many drain cursors were created
  leaked,     \* some drain cursor was forgotten, so its Drop never ran
  pushed,     \* the values pushed so far, while all that has happened to
              \* the vector since new() are pushes that succeeded
  work,       \* the slots a truncate that is under way has still to drop
  raws,       \* the raw steps so far (a direct call of set_len or
              \* push_unchecked, a write through &mut [T]): n, their number,
              \* and misused, whether one of them broke the contract of an
              \* unsafe function and went through
  other_vec,  \* a second vector, of capacity M, to compare with
  last        \* the last operation and what it returned

vars == <<items, length, init, pc, build, drain, nextId, released,
          badRead, badWrite, orig, yields, drains, leaked, pushed, work,
          raws, other_vec, last>>

Slots == 0 .. (N - 1)
Elems == 1 .. (MaxElems + 1)
Uninit == 0

Min(a, b) == IF a < b THEN a ELSE b

\* ------------------------------------------------------------ raw memory
\* The memory the raw pointers reach: the array's slots and the cells that
\* follow it, as far as any length of the model goes.
Cells == 0 .. (MaxLen + MaxElems)

\* Reading the cell at as_ptr().add(i): what the cell holds.  A cell past
\* the array holds indeterminate bits until a store lands in it.
Read(its, i) == IF i \in Cells THEN its[i] ELSE Uninit

\* ptr::write / a raw store to cell i.
Write(its, i, v) == IF i \in Cells THEN [its EXCEPT ![i] = v] ELSE its

\* Stores to cells past the array are undefined behaviour: they land in the
\* memory after the array, or that memory keeps what it held.  The memory
\* after an operation whose stores give `new` from `old`.
Landed(lands, old, new) ==
  [i \in Cells |-> IF i \in Slots \/ lands THEN new[i] ELSE old[i]]

\* The cells that own a value after such an operation.
LandedInit(lands, old, new) ==
  IF lands THEN new \cap Cells
  ELSE (new \cap Slots) \cup (old \ Slots)

\* A copy that goes forward one slot at a time (memcpy semantics): when the
\* destination overlaps the source from above, it reads slots it has already
\* overwritten.
RECURSIVE CopyForward(_, _, _, _)
CopyForward(its, src, dst, count) ==
  IF count <= 0
  THEN its
  ELSE CopyForward(Write(its, dst, Read(its, src)), src + 1, dst + 1, count - 1)

\* ptr::copy(src, dst, count): memmove semantics, the source is read whole
\* before the destination is written.
Copy(its, src, dst, count) ==
  [i \in Cells |-> IF dst <= i /\ i < dst + count
                   THEN Read(its, src + (i - dst))
                   ELSE its[i]]

\* Ownership after a raw relocation: a destination slot owns a value exactly
\* when its source slot did, and a source slot outside the destination no
\* longer does.
CopyInit(ini, src, dst, count) ==
  LET srcR == {src + j : j \in 0 .. (count - 1)}
      dstR == {dst + j : j \in 0 .. (count - 1)}
      moved == {dst + j : j \in {k \in 0 .. (count - 1) : (src + k) \in ini}}
  IN  (((ini \ srcR) \ dstR) \cup moved) \cap Cells

\* The slots in [lo, hi) that are read although they are out of bounds or do
\* not hold an owned value.
BadSlots(ini, lo, hi) ==
  {i \in lo .. (hi - 1) : i \notin ini \/ i \notin Slots}

\* ------------------------------------------------------------ pure queries
Capacity == N
\* An is_empty() that also calls a vector of one element empty.
IsEmptyLate(len) == len <= 1

IsEmpty(len) == len = 0
\* An is_full() that answers one element early.
IsFullEarly(len) == len >= Capacity - 1

IsFull(len) == len = Capacity
UsizeModulus == 2 ^ UsizeBits
RemainingCapacity(len) == (Capacity - len) % UsizeModulus

\* An as_slice that hands out the whole array, whatever the length.
AsSliceWhole(its, len) == [i \in 1 .. N |-> Read(its, i - 1)]

\* Deref / as_slice: the live sequence [0, length).
AsSlice(its, len) == [i \in 1 .. len |-> Read(its, i - 1)]

\* ------------------------------------------------------- ownership counters
Bump(f, id) ==
  IF id \in DOMAIN f THEN [f EXCEPT ![id] = Min(@ + 1, MaxCount)] ELSE f

RECURSIVE BumpSeq(_, _)
BumpSeq(f, s) ==
  IF s = <<>> THEN f ELSE BumpSeq(Bump(f, Head(s)), Tail(s))

\* A range that stops one slot short of hi.
RangeShort(its, lo, hi) ==
  [j \in 1 .. (IF hi - 1 > lo THEN hi - 1 - lo ELSE 0) |-> Read(its, lo + j - 1)]

\* The bits of the slots [lo, hi), in index order.
Range(its, lo, hi) ==
  [j \in 1 .. (IF hi > lo THEN hi - lo ELSE 0) |-> Read(its, lo + j - 1)]

NoOrig == [live |-> <<>>, init |-> {}]

NoDrain ==
  [state |-> "none", drain_range_start |-> 0, tail_start |-> 0,
   tail_length |-> 0, head |-> 0, tail |-> 0]

\* The vector's history is not (any longer) pushes alone.
NotPushed == [pure |-> FALSE, vals |-> <<>>]

\* No raw step was taken.
NoRaws == [n |-> 0, misused |-> FALSE]

\* No truncate is under way.
NoWork ==
  [lo |-> 0, hi |-> 0, unwinding |-> FALSE, op |-> "none", outer |-> FALSE]

\* ArrayVec::<T, M>::new().
OtherNew == [items |-> [i \in 0 .. (M - 1) |-> Uninit], length |-> 0]

\* What an operation reports: its name, its index argument, how it ended,
\* the element it returned and the values whose destructors it ran, in the
\* order it ran them.
Result(op, idx, res, ret) ==
  [op |-> op, idx |-> idx, res |-> res, ret |-> ret, drops |-> <<>>]

\* -------------------------------------------------------------- constructors
\* ArrayVec::new(): no slot initialized, length 0.
NewItems == [i \in Cells |-> Uninit]

\* A From that copies one element too few.
FromItemsShort == [i \in Cells |-> IF i < N - 1 THEN i + 1 ELSE Uninit]

\* From<[T; N]>: the array's N elements are copied in, length N.
FromItems == [i \in Cells |-> IF i \in Slots THEN i + 1 ELSE Uninit]

InitCommon ==
  /\ pc = "alive"
  /\ build = "unknown"
  /\ drain = NoDrain
  /\ released = [e \in Elems |-> 0]
  /\ badRead = FALSE
  /\ badWrite = FALSE
  /\ orig = NoOrig
  /\ yields = <<>>
  /\ drains = 0
  /\ leaked = FALSE
  /\ work = NoWork
  /\ raws = NoRaws

New ==
  /\ items = NewItems
  /\ length = 0
  /\ init = {}
  /\ nextId = 1
  /\ pushed = [pure |-> TRUE, vals |-> <<>>]
  /\ last = Result("new", 0, "Ok", 0)

From ==
  /\ items = FromItems
  /\ length = N
  /\ init = Slots
  /\ nextId = N + 1
  /\ pushed = NotPushed
  /\ last = Result("from", 0, "Ok", 0)

Init == (New \/ From) /\ InitCommon /\ other_vec = OtherNew

\* The stores of one operation: they would leave the memory as `new` and
\* the ownership as `newInit`; those past the array land or are lost.
Store(new, newInit) ==
  \E lands \in BOOLEAN :
    /\ items' = Landed(lands, items, new)
    /\ init' = LandedInit(lands, init, newInit)

\* The vector can be used: it is alive and no cursor borrows it.  Once a
\* raw step has broken the contract of an unsafe function and gone through,
\* what the program does is the caller's undefined behaviour: the vector is
\* followed no further than its drop.
Usable == pc = "alive" /\ drain.state # "live" /\ ~raws.misused

\* The caller has an element to offer: one of the MaxElems it places, or one
\* more that a full vector turns down.
CanOffer == nextId <= MaxElems \/ IsFull(length)

\* set_len(new_length): the debug assertion, then the store.  When the
\* assertion does not hold, a debug build panics before the store and a
\* release build stores the length.
\* ok is what the operation reports when set_len returns.
SetLenThen(ok, new_length) ==
  \/ /\ new_length <= Capacity
     /\ length' = new_length
     /\ UNCHANGED <<pc, build>>
     /\ last' = ok
  \/ /\ ~(new_length <= Capacity)
     /\ build # "debug"
     /\ length' = new_length
     /\ build' = "release"
     /\ pc' = pc
     /\ last' = ok
  \/ /\ ~(new_length <= Capacity)
     /\ build # "release"
     /\ length' = length
     /\ build' = "debug"
     /\ pc' = "panicked"
     /\ last' = [ok EXCEPT !.res = "Panic"]

SetLen(op, idx, new_length) == SetLenThen(Result(op, idx, "Ok", 0), new_length)

\* Ghost state that only drain operations touch.
drainGhost == <<orig, yields, drains, pushed, work, raws, other_vec>>

\* A cursor that was dropped or leaked is gone once the vector is used again.
RetireCursor ==
  /\ drain' = NoDrain
  /\ orig' = NoOrig
  /\ yields' = <<>>
  /\ UNCHANGED <<drains, leaked, other_vec>>

\* The same, for an operation that is not a push and runs in one step.
Retire ==
  RetireCursor /\ pushed' = NotPushed /\ work' = work /\ raws' = raws

\* A push that succeeded extends a history of pushes.
LogPush(item, ok) ==
  pushed' = IF pushed.pure /\ ok
            THEN [pushed EXCEPT !.vals = Append(@, item)]
            ELSE NotPushed

\* ---------------------------------------------------------------- push
\* A try_push whose capacity test is off by one.
TryPushFailsLate(len) == len > Capacity

\* try_push's test: the vector is full.
TryPushFails(len) == IsFull(len)

\* The payload of the CapacityError try_push returns for this item.
TryPushPayload(item) == item

\* A panic leaves an operation that was handed item by value and still owns
\* it: the unwinding destroys the item.  When the item's destructor panics
\* during that unwinding, the process aborts.
PanicsOwning(report, item) ==
  /\ released' = Bump(released, item)
  /\ \E panics \in BOOLEAN :
       /\ last' = [report EXCEPT !.res = IF panics THEN "Abort" ELSE @,
                                 !.drops = <<item>>]
       /\ pc' = IF panics THEN "aborted" ELSE "panicked"

\* push_unchecked(item): debug_assert!(!self.is_full()), which panics in a
\* debug build before anything is written; then write the item to slot len
\* and set_len(len + 1).
PushUnchecked(op, item) ==
  \/ /\ IsFull(length)
     /\ build # "release"
     /\ build' = "debug"
     /\ PanicsOwning(Result(op, 0, "Panic", 0), item)
     /\ UNCHANGED <<items, length, init, nextId, badRead, badWrite>>
  \/ /\ ~IsFull(length) \/ build # "debug"
     /\ Store(Write(items, length, item), init \cup {length})
     /\ badWrite' = (badWrite \/ length \notin Slots)
     /\ nextId' = nextId + 1
     /\ SetLen(op, 0, length + 1)
     /\ IsFull(length) => build' = "release"
     /\ UNCHANGED <<released, badRead>>

\* try_push(item): Err(CapacityError(item)) when full, else push_unchecked.
TryPush ==
  /\ Usable
  /\ RetireCursor
  /\ CanOffer
  /\ IF TryPushFails(length)
     THEN /\ last' = Result("try_push", 0, "Err", TryPushPayload(nextId))
          /\ UNCHANGED <<items, length, init, pc, build, nextId, released,
                         badRead, badWrite>>
     ELSE PushUnchecked("try_push", nextId)
  /\ LogPush(nextId, last'.res = "Ok")
  /\ UNCHANGED <<work, raws>>

\* push(item): try_push, and a panic on Err.
Push ==
  /\ Usable
  /\ RetireCursor
  /\ CanOffer
  /\ IF TryPushFails(length)
     THEN /\ PanicsOwning(Result("push", 0, "Panic", 0), nextId)
          /\ UNCHANGED <<items, length, init, build, nextId, badRead,
                         badWrite>>
     ELSE PushUnchecked("push", nextId)
  /\ LogPush(nextId, last'.res = "Ok")
  /\ UNCHANGED <<work, raws>>

\* One more raw step; broke: it broke the contract of an unsafe function.
Raw(broke) ==
  /\ drains + raws.n < MaxDrains
  /\ raws' = [n |-> raws.n + 1, misused |-> raws.misused \/ broke]
  /\ work' = work

\* A direct call of the public unsafe push_unchecked(item).  Its contract:
\* the vector has room.  On a full vector a debug build panics in the
\* assertion and a release build stores past the array.
PushUncheckedCall ==
  /\ Usable
  /\ RetireCursor
  /\ CanOffer
  /\ nextId \in Elems
  /\ length < MaxLen
  /\ PushUnchecked("push_unchecked", nextId)
  /\ Raw(length >= Capacity /\ last'.res = "Ok")
  /\ LogPush(nextId, last'.res = "Ok")

\* set_len's contract: the length is within the capacity and the slots
\* below it hold values.
SetLenContract(new_length) ==
  new_length <= Capacity /\ \A i \in 0 .. (new_length - 1) : i \in init

\* A direct call of the public unsafe set_len(new_length), by a caller who
\* has values in the slots of the array below the new length, and who may
\* pass a length beyond the capacity, which only the debug assertion stops.
\* Nothing is dropped or moved.
SetLenCall ==
  /\ Usable
  /\ RetireCursor
  /\ pushed' = NotPushed
  /\ \E new_length \in 0 .. (N + 1) :
       /\ \A i \in Slots : i < new_length => i \in init
       /\ SetLen("set_len", new_length, new_length)
       /\ Raw(~SetLenContract(new_length) /\ last'.res = "Ok")
  /\ UNCHANGED <<items, init, nextId, released, badRead, badWrite>>

\* IndexMut, DerefMut, as_slice_mut and AsMut hand out the live sequence as
\* &mut [T] (as_mut_ptr, its base): slice indexing panics at index >= len.
SliceOutOfBounds(index, len) == index >= len

\* The caller still owns the item it meant to put there.
SliceAborts(op, index, item) ==
  /\ PanicsOwning(Result(op, index, "OutOfBounds", 0), item)
  /\ UNCHANGED <<items, length, init, build, nextId, badRead, badWrite>>

\* mem::replace(&mut vector[index], item): the new element takes the slot
\* and the old one goes to the caller.
IndexMutReplace ==
  /\ Usable
  /\ RetireCursor
  /\ pushed' = NotPushed
  /\ Raw(FALSE)
  /\ nextId <= MaxElems
  /\ \E index \in 0 .. N :
       IF SliceOutOfBounds(index, length)
       THEN SliceAborts("index_mut", index, nextId)
       ELSE LET old == Read(items, index)
            IN  /\ Store(Write(items, index, nextId), init \cup {index})
                /\ released' = Bump(released, old)
                /\ badRead' = (badRead \/ BadSlots(init, index, index + 1) # {})
                /\ badWrite' = (badWrite \/ index \notin Slots)
                /\ nextId' = nextId + 1
                /\ last' = Result("index_mut", index, "Some", old)
                /\ UNCHANGED <<length, pc, build>>

\* The memory with the cells [0, len) in the opposite order.
Reversed(its, len) ==
  [i \in Cells |-> IF i < len THEN Read(its, len - 1 - i) ELSE its[i]]

\* Ownership after that exchange.
ReversedInit(ini, len) ==
  {i \in Cells : IF i < len THEN (len - 1 - i) \in ini ELSE i \in ini}

\* vector.reverse(), a method of [T] reached through DerefMut: the live
\* elements are permuted in place.
SliceReverse ==
  /\ Usable
  /\ RetireCursor
  /\ pushed' = NotPushed
  /\ Raw(FALSE)
  /\ length > 1
  /\ Store(Reversed(items, length), ReversedInit(init, length))
  /\ badRead' = (badRead \/ BadSlots(init, 0, length) # {})
  /\ badWrite' = (badWrite \/ ~(length <= N))
  /\ last' = Result("reverse", 0, "Ok", 0)
  /\ UNCHANGED <<length, pc, build, nextId, released>>

\* ----------------------------------------------------------------- pop
\* pop(): None when empty; else set_len(len - 1) and read the slot out.
Pop ==
  /\ Usable
  /\ Retire
  /\ IF IsEmpty(length)
     THEN /\ last' = Result("pop", 0, "None", 0)
          /\ UNCHANGED <<items, length, init, pc, build, nextId, released,
                         badRead, badWrite>>
     ELSE LET new_length == length - 1
              item == Read(items, new_length)
          IN  /\ length' = new_length
              /\ released' = Bump(released, item)
              /\ badRead' = (badRead \/ BadSlots(init, new_length, length) # {})
              /\ init' = init \ {new_length}
              /\ last' = Result("pop", 0, "Some", item)
              /\ UNCHANGED <<items, pc, build, nextId, badWrite>>

\* ------------------------------------------------------------- truncate
\* How ptr::drop_in_place of a slice of n elements can end.  Every
\* destructor returns ("Ok").  One destructor panics: the rest of the slice
\* is dropped while that panic unwinds, and the panic then leaves the
\* operation ("Panic"), or aborts the process when the operation itself ran
\* while another panic was unwinding (outer).  A second destructor, the
\* ran-th of the slice, panics during that clean-up: the process aborts there.
DropEnds(n, outer) ==
  {[ran |-> n, end |-> "Ok"]}
    \cup {[ran |-> n, end |-> IF outer THEN "Abort" ELSE "Panic"] :
            j \in 1 .. Min(n, 1)}
    \cup {[ran |-> j, end |-> "Abort"] : j \in 2 .. n}

\* Where the thread is after a truncate, clear or drop that ended in `end`.
AfterDrops(op, end) ==
  IF end = "Abort" THEN "aborted"
  ELSE IF op = "drop" THEN "dropped"
  ELSE IF end = "Panic" THEN "panicked"
  ELSE pc

\* truncate(new_length): when shorter, set_len(new_length) and then drop the
\* slots [new_length, len) in place, in index order.
TruncateTo(op, new_length) ==
  IF new_length < length
  THEN \E e \in DropEnds(length - new_length, pc = "panicked") :
         LET hi == new_length + e.ran
         IN  /\ length' = new_length
             /\ released' = BumpSeq(released, Range(items, new_length, hi))
             /\ badRead' = (badRead \/ BadSlots(init, new_length, hi) # {})
             /\ init' = init \ (new_length .. (hi - 1))
             /\ last' = [Result(op, new_length, e.end, 0)
                           EXCEPT !.drops = Range(items, new_length, hi)]
             /\ pc' = AfterDrops(op, e.end)
             /\ UNCHANGED <<items, build, nextId, badWrite>>
  ELSE /\ last' = Result(op, new_length, "Ok", 0)
       /\ pc' = AfterDrops(op, "Ok")
       /\ UNCHANGED <<items, length, init, build, nextId, released, badRead,
                      badWrite>>

Truncate ==
  /\ Usable
  /\ Retire
  /\ \E new_length \in 0 .. N : TruncateTo("truncate", new_length)

\* clear() is truncate(0).
Clear ==
  /\ Usable
  /\ Retire
  /\ TruncateTo("clear", 0)

\* Drop for ArrayVec: clear().  It also runs while a panic unwinds.
DropVec ==
  /\ pc \in {"alive", "panicked"}
  /\ drain.state # "live"
  /\ Retire
  /\ TruncateTo("drop", 0)

\* ---------------------------------------------------------------- insert
\* A bounds check that lets the index one past the end + 1 through.
InsertOutOfBoundsLate(index, len) == index > len + 1

\* try_insert's bounds check, which comes first.
InsertOutOfBounds(index, len) == index > len

\* A try_insert whose capacity check is off by one.
TryInsertFailsLate(len) == len > Capacity

\* try_insert's capacity check.
TryInsertFails(len) == IsFull(len)

\* The payload of the CapacityError try_insert returns for this item.
TryInsertPayload(item) == item

\* The unsafe block of try_insert: shift [index, len) one slot to the right,
\* write the item at index, set_len(len + 1).
InsertShift(op, index, item) ==
  LET len == length
      shifted == Copy(items, index, index + 1, len - index)
  IN  /\ Store(Write(shifted, index, item),
               CopyInit(init, index, index + 1, len - index) \cup {index})
      /\ badRead' = (badRead \/ BadSlots(init, index, len) # {})
      /\ badWrite' = (badWrite \/ ~(len + 1 <= N))
      /\ nextId' = nextId + 1
      /\ SetLen(op, index, len + 1)
      /\ UNCHANGED released

\* The out_of_bounds! panic of try_insert, which owns the item.
InsertAborts(op, index, item) ==
  /\ PanicsOwning(Result(op, index, "OutOfBounds", 0), item)
  /\ UNCHANGED <<items, length, init, build, nextId, badRead, badWrite>>

\* try_insert(index, item).
TryInsert ==
  /\ Usable
  /\ Retire
  /\ CanOffer
  /\ \E index \in 0 .. (MaxLen + 1) :
       IF InsertOutOfBounds(index, length)
       THEN InsertAborts("try_insert", index, nextId)
       ELSE IF TryInsertFails(length)
       THEN /\ last' = Result("try_insert", index, "Err",
                              TryInsertPayload(nextId))
            /\ UNCHANGED <<items, length, init, pc, build, nextId, released,
                           badRead, badWrite>>
       ELSE InsertShift("try_insert", index, nextId)

\* insert(index, item): try_insert, and a panic on Err.
Insert ==
  /\ Usable
  /\ Retire
  /\ CanOffer
  /\ \E index \in 0 .. (MaxLen + 1) :
       IF InsertOutOfBounds(index, length)
       THEN InsertAborts("insert", index, nextId)
       ELSE IF TryInsertFails(length)
       THEN /\ PanicsOwning(Result("insert", index, "Panic", 0), nextId)
            /\ UNCHANGED <<items, length, init, build, nextId, badRead,
                           badWrite>>
       ELSE InsertShift("insert", index, nextId)

\* ------------------------------------------------- try_extend_from_slice
\* The slice offered: other_len fresh elements, in order.
OtherSlice(other_len) == [j \in 1 .. other_len |-> nextId + j - 1]

\* A try_extend_from_slice that turns down a slice that fits exactly.
TryExtendFailsTight(len, other_len) == RemainingCapacity(len) <= other_len

\* try_extend_from_slice's capacity check.
TryExtendFails(len, other_len) == RemainingCapacity(len) < other_len

\* The array after copy_nonoverlapping(other, dst, other.len()).
ExtendItems(its, dst, other) ==
  [i \in Cells |-> IF dst <= i /\ i < dst + Len(other)
                   THEN other[i - dst + 1]
                   ELSE its[i]]

\* The copy and set_len of try_extend_from_slice.
ExtendCopy(other_len) ==
  LET self_len == length
      other == OtherSlice(other_len)
  IN  /\ Store(ExtendItems(items, self_len, other),
               init \cup (self_len .. (self_len + other_len - 1)))
      /\ badWrite' = (badWrite \/
                      (other_len > 0 /\ ~(self_len + other_len <= N)))
      /\ nextId' = nextId + other_len
      /\ SetLen("try_extend_from_slice", other_len, self_len + other_len)
      /\ UNCHANGED <<released, badRead>>

\* try_extend_from_slice(other).  In a debug build the subtraction in
\* remaining_capacity() panics when it would wrap.
TryExtendFromSlice ==
  /\ Usable
  /\ Retire
  /\ \E other_len \in 0 .. MaxSlice :
       /\ nextId + other_len - 1 <= MaxElems
       /\ IF build # "release" /\ length > Capacity
          THEN /\ last' = Result("try_extend_from_slice", other_len, "Panic", 0)
               /\ pc' = "panicked"
               /\ UNCHANGED <<items, length, init, build, nextId, released,
                              badRead, badWrite>>
          ELSE IF TryExtendFails(length, other_len)
          THEN /\ last' = Result("try_extend_from_slice", other_len, "Err", 0)
               /\ UNCHANGED <<items, length, init, pc, build, nextId, released,
                              badRead, badWrite>>
          ELSE ExtendCopy(other_len)

\* ----------------------------------------------------------------- Drain
\* Drain::with_range computes tail_length from the vector's length and the
\* range.
TailLength(len, start, end) == len - (end - start)

\* The address, relative to as_mut_ptr(), of the slot with this index.
PtrAdd(index) == index * SizeOfT

\* The slot an address points to.
SlotOf(ptr) == ptr \div SizeOfT

\* A with_range that hides the tail only: set_len(range.end).
HiddenLenEnd(start, end) == end

\* The length with_range leaves the vector with: set_len(range.start).
HiddenLen(start, end) == start

\* Drain::with_range(vector, start .. end).  The caller guarantees
\* start <= end <= vector.len().
WithRange ==
  /\ Usable
  /\ drains + raws.n < MaxDrains
  /\ drains' = drains + 1
  /\ \E start \in 0 .. length : \E end \in start .. length :
       /\ start + TailLength(length, start, end) <= MaxLen
       /\ drain' = [state |-> "live",
                    drain_range_start |-> start,
                    tail_start |-> end,
                    tail_length |-> TailLength(length, start, end),
                    head |-> PtrAdd(start),
                    tail |-> PtrAdd(end)]
       /\ length' = HiddenLen(start, end)
       /\ orig' = [live |-> AsSlice(items, length), init |-> init]
       /\ yields' = <<>>
       /\ last' = Result("drain", 0, "Ok", 0)
       /\ pushed' = NotPushed
       /\ UNCHANGED <<items, init, pc, build, nextId, released, badRead,
                      badWrite, leaked, work, raws, other_vec>>

\* next() and next_back() return None when head == tail.
Exhausted(d) == d.head = d.tail

\* next(): the slot read, and the cursor afterwards.
NextSlot(d) == SlotOf(d.head)
NextAdvance(d) == [d EXCEPT !.head = d.head + SizeOfT]

\* next_back(): the cursor afterwards, and the slot read (through the moved
\* tail).
NextBackAdvance(d) == [d EXCEPT !.tail = d.tail - SizeOfT]
\* A next_back that reads through the tail before moving it.
NextBackSlotStale(d) == SlotOf(d.tail)
NextBackSlot(d) == SlotOf(NextBackAdvance(d).tail)

\* A len() that forgets the element size.
DrainLenBytes(d) == d.tail - d.head

\* ExactSizeIterator::len(): the byte distance from head to tail over the
\* element size.
DrainLen(d) == (d.tail - d.head) \div SizeOfT

Yield(dir, idx, bits) == [dir |-> dir, idx |-> idx, bits |-> bits]

\* A next() or next_back() that found head == tail.
YieldNone(op) ==
  /\ last' = Result(op, 0, "None", 0)
  /\ UNCHANGED <<items, length, init, pc, build, drain, nextId, released,
                 badRead, badWrite, drainGhost, leaked>>

\* A next() or next_back() that read slot idx and left the cursor as d.
YieldSome(op, dir, idx, d) ==
  LET item == Read(items, idx)
  IN  /\ drain' = d
      /\ released' = Bump(released, item)
      /\ badRead' = (badRead \/ BadSlots(init, idx, idx + 1) # {})
      /\ init' = init \ {idx}
      /\ yields' = Append(yields, Yield(dir, idx, item))
      /\ last' = Result(op, idx, "Some", item)
      /\ UNCHANGED <<items, length, pc, build, nextId, badWrite, orig, drains,
                     leaked, pushed, work, raws, other_vec>>

\* Drain::next().
DrainNext ==
  /\ pc = "alive"
  /\ drain.state = "live"
  /\ IF Exhausted(drain)
     THEN YieldNone("next")
     ELSE YieldSome("next", "front", NextSlot(drain), NextAdvance(drain))

\* Drain::next_back().
DrainNextBack ==
  /\ pc = "alive"
  /\ drain.state = "live"
  /\ IF Exhausted(drain)
     THEN YieldNone("next_back")
     ELSE YieldSome("next_back", "back", NextBackSlot(drain),
                    NextBackAdvance(drain))

\* The slots that the loop `while let Some(item) = self.next()` of
\* Drop for Drain reads and drops, in order.
RECURSIVE Unyielded(_)
Unyielded(d) ==
  IF Exhausted(d) THEN <<>> ELSE <<NextSlot(d)>> \o Unyielded(NextAdvance(d))

\* The cursor when that loop ends.
RECURSIVE Drained(_)
Drained(d) == IF Exhausted(d) THEN d ELSE Drained(NextAdvance(d))

\* Drop for Drain returns before the relocation when there is no tail.
NoTail(d) == d.tail_length = 0

\* The length Drop for Drain restores.
RestoredLen(d) == d.drain_range_start + d.tail_length

\* The cursor after k more calls of next().
RECURSIVE Advanced(_, _)
Advanced(d, k) == IF k <= 0 THEN d ELSE Advanced(NextAdvance(d), k - 1)

\* Drop for Drain when every destructor returns: drop what was not yielded,
\* move the tail down to drain_range_start, restore the length.
DrainDrop ==
  /\ pc = "alive"
  /\ drain.state = "live"
  /\ LET rest == Unyielded(drain)
         bits == [j \in 1 .. Len(rest) |-> Read(items, rest[j])]
         bad1 == \E j \in 1 .. Len(rest) :
                   BadSlots(init, rest[j], rest[j] + 1) # {}
         ini1 == init \ {rest[j] : j \in 1 .. Len(rest)}
         d == [Drained(drain) EXCEPT !.state = "dropped"]
         ok == [Result("drain_drop", 0, "Ok", 0) EXCEPT !.drops = bits]
     IN  /\ released' = BumpSeq(released, bits)
         /\ drain' = d
         /\ IF NoTail(d)
            THEN /\ badRead' = (badRead \/ bad1)
                 /\ init' = ini1
                 /\ last' = ok
                 /\ UNCHANGED <<items, length, pc, build, badWrite>>
            ELSE /\ Store(Copy(items, d.tail_start, d.drain_range_start,
                               d.tail_length),
                          CopyInit(ini1, d.tail_start, d.drain_range_start,
                                   d.tail_length))
                 /\ badRead' = (badRead \/ bad1 \/
                                BadSlots(ini1, d.tail_start,
                                         d.tail_start + d.tail_length) # {})
                 /\ badWrite' = (badWrite \/
                                 ~(d.drain_range_start + d.tail_length <= N))
                 /\ SetLenThen(ok, RestoredLen(d))
         /\ UNCHANGED <<nextId, drainGhost, leaked>>

\* Drop for Drain when the destructor of the k-th element not yet yielded
\* panics: the panic leaves drop() from inside the loop, so the elements
\* after it are not dropped, the tail is not moved and set_len is not called.
\* The report carries k in idx.
DrainDropPanics ==
  /\ pc = "alive"
  /\ drain.state = "live"
  /\ \E k \in 1 .. Len(Unyielded(drain)) :
       LET rest == SubSeq(Unyielded(drain), 1, k)
           bits == [j \in 1 .. k |-> Read(items, rest[j])]
       IN  /\ released' = BumpSeq(released, bits)
           /\ badRead' = (badRead \/ \E j \in 1 .. k :
                                        BadSlots(init, rest[j], rest[j] + 1) # {})
           /\ init' = init \ {rest[j] : j \in 1 .. k}
           /\ drain' = [Advanced(drain, k) EXCEPT !.state = "dropped"]
           /\ last' = [Result("drain_drop", k, "Panic", 0) EXCEPT !.drops = bits]
  /\ pc' = "panicked"
  /\ UNCHANGED <<items, length, build, nextId, badWrite, drainGhost, leaked>>

\* mem::forget(drain): the cursor is leaked and its Drop never runs.
DrainForget ==
  /\ pc = "alive"
  /\ drain.state = "live"
  /\ drain' = [drain EXCEPT !.state = "leaked"]
  /\ leaked' = TRUE
  /\ last' = Result("drain_forget", 0, "Ok", 0)
  /\ UNCHANGED <<items, length, init, pc, build, nextId, released, badRead,
                 badWrite, drainGhost>>

\* ------------------------------------------------------ equality and hash
\* Deref of the other vector, an ArrayVec<T, M>: its live sequence.
OtherAsSlice(v) == [i \in 1 .. v.length |-> v.items[i - 1]]

\* PartialEq for slices: the same length and equal elements, index by index.
SliceEq(a, b) == Len(a) = Len(b) /\ \A j \in 1 .. Len(a) : a[j] = b[j]

\* PartialEq<ArrayVec<T, M>> for ArrayVec<T, N>: as_slice() == as_slice().
VecEq(its, len, v) == SliceEq(AsSlice(its, len), OtherAsSlice(v))

\* Hash: as_slice().hash(hasher).  A slice feeds its length and then its
\* elements, in order, to the hasher.
HashFeed(s) == <<Len(s)>> \o s

\* self == other.
EqStep ==
  /\ Usable
  /\ last' = Result("eq", 0,
                    IF VecEq(items, length, other_vec) THEN "Equal"
                    ELSE "NotEqual", 0)
  /\ UNCHANGED <<items, length, init, pc, build, drain, nextId, released,
                 badRead, badWrite, drainGhost, leaked>>

\* self and other are hashed with hashers in the same state.
HashStep ==
  /\ Usable
  /\ last' = Result("hash", 0,
                    IF HashFeed(AsSlice(items, length)) =
                       HashFeed(OtherAsSlice(other_vec))
                    THEN "Same" ELSE "Differ", 0)
  /\ UNCHANGED <<items, length, init, pc, build, drain, nextId, released,
                 badRead, badWrite, drainGhost, leaked>>

\* The vectors of capacity M that a history of pushes, pops and truncates
\* leaves: the live slots hold elements, the slots from the length on hold
\* whatever was left there.
OtherVecs ==
  {v \in [items : [0 .. (M - 1) -> {Uninit} \cup Elems], length : 0 .. M] :
     \A i \in 0 .. (v.length - 1) : v.items[i] \in Elems}

InitEq == (New \/ From) /\ InitCommon /\ other_vec \in OtherVecs

NextEq ==
  \/ TryPush
  \/ Pop
  \/ Truncate
  \/ EqStep
  \/ HashStep

\* Two vectors of different capacities and histories are compared and hashed.
SpecEq == InitEq /\ [][NextEq]_vars

\* ------------------------------------------- pop and truncate, step by step
\* pop(), up to and with set_len(len - 1); the read of the slot is to come.
PopBegin ==
  /\ Usable
  /\ RetireCursor
  /\ pushed' = NotPushed
  /\ raws' = raws
  /\ IF IsEmpty(length)
     THEN /\ last' = Result("pop", 0, "None", 0)
          /\ UNCHANGED <<items, length, init, pc, build, nextId, released,
                         badRead, badWrite, work>>
     ELSE /\ length' = length - 1
          /\ pc' = "popping"
          /\ last' = Result("pop", 0, "Running", 0)
          /\ UNCHANGED <<items, init, build, nextId, released, badRead,
                         badWrite, work>>

\* pop(): ptr::read of the slot at the new length, returned as Some.
PopEnd ==
  /\ pc = "popping"
  /\ LET item == Read(items, length)
     IN  /\ released' = Bump(released, item)
         /\ badRead' = (badRead \/ BadSlots(init, length, length + 1) # {})
         /\ init' = init \ {length}
         /\ last' = Result("pop", 0, "Some", item)
  /\ pc' = "alive"
  /\ UNCHANGED <<items, length, build, drain, nextId, badWrite, drainGhost,
                 leaked>>

\* A truncate whose tail starts one slot early.
TruncateStartEarly(new_length) == new_length - 1

\* truncate: the first slot of the tail, as_mut_ptr().add(new_length).
TruncateStart(new_length) == new_length

\* truncate(new_length), up to and with set_len(new_length); the tail
\* [new_length, len) is still to be dropped.
TruncateBegin ==
  /\ Usable
  /\ RetireCursor
  /\ pushed' = NotPushed
  /\ raws' = raws
  /\ \E new_length \in 0 .. N :
       IF new_length < length
       THEN /\ work' = [lo |-> TruncateStart(new_length), hi |-> length,
                        unwinding |-> FALSE, op |-> "truncate",
                        outer |-> FALSE]
            /\ length' = new_length
            /\ pc' = "truncating"
            /\ last' = Result("truncate", new_length, "Running", 0)
            /\ UNCHANGED <<items, init, build, nextId, released, badRead,
                           badWrite>>
       ELSE /\ last' = Result("truncate", new_length, "Ok", 0)
            /\ UNCHANGED <<items, length, init, pc, build, nextId, released,
                           badRead, badWrite, work>>

\* ptr::drop_in_place(tail) runs the destructor of the next slot of the tail.
\* A destructor that panics starts unwinding, during which the rest of the
\* slice is still dropped; a second panic while unwinding aborts the process.
DropSlot(panics) ==
  /\ pc = "truncating"
  /\ work.lo < work.hi
  /\ LET item == Read(items, work.lo)
     IN  /\ released' = Bump(released, item)
         /\ badRead' = (badRead \/ BadSlots(init, work.lo, work.lo + 1) # {})
         /\ init' = init \ {work.lo}
         /\ last' = [last EXCEPT !.drops = Append(@, item),
                                 !.res = IF panics /\ work.unwinding
                                         THEN "Abort" ELSE @]
  /\ work' = [work EXCEPT !.lo = @ + 1, !.unwinding = @ \/ panics]
  /\ pc' = IF panics /\ work.unwinding THEN "aborted" ELSE pc
  /\ UNCHANGED <<items, length, build, drain, nextId, badWrite, orig, yields,
                 drains, pushed, raws, other_vec, leaked>>

\* The destructor returns.
DropElement == DropSlot(FALSE)

\* The destructor panics part-way.
DropElementPanics == DropSlot(TRUE)

\* How the drop_in_place that is through ended.
WorkEnd(w) ==
  IF ~w.unwinding THEN "Ok" ELSE IF w.outer THEN "Abort" ELSE "Panic"

\* The tail is dropped: the operation returns, or the panic unwinds out of
\* it, or, when the operation ran while another panic was unwinding, the
\* process aborts.
TruncateEnd ==
  /\ pc = "truncating"
  /\ work.lo >= work.hi
  /\ pc' = IF WorkEnd(work) = "Abort" THEN "aborted"
           ELSE IF work.op = "drop" THEN "dropped"
           ELSE IF WorkEnd(work) = "Panic" THEN "panicked"
           ELSE "alive"
  /\ last' = [last EXCEPT !.res = WorkEnd(work)]
  /\ work' = NoWork
  /\ UNCHANGED <<items, length, init, build, drain, nextId, released, badRead,
                 badWrite, orig, yields, drains, pushed, raws, other_vec, leaked>>

\* Drop for ArrayVec, up to and with the set_len(0) of clear() = truncate(0);
\* the elements are still to be dropped.  It also runs while a panic unwinds.
DropBegin ==
  /\ pc \in {"alive", "panicked"}
  /\ drain.state # "live"
  /\ RetireCursor
  /\ pushed' = NotPushed
  /\ raws' = raws
  /\ work' = [lo |-> TruncateStart(0), hi |-> length, unwinding |-> FALSE,
              op |-> "drop", outer |-> pc = "panicked"]
  /\ length' = 0
  /\ pc' = "truncating"
  /\ last' = Result("drop", 0, "Running", 0)
  /\ UNCHANGED <<items, init, build, nextId, released, badRead, badWrite>>

NextFine ==
  \/ TryPush
  \/ TryInsert
  \/ TryExtendFromSlice
  \/ PopBegin
  \/ PopEnd
  \/ TruncateBegin
  \/ DropElement
  \/ DropElementPanics
  \/ TruncateEnd
  \/ DropBegin

\* The vector with pop and truncate taken one store, read and destructor at
\* a time.
SpecFine == Init /\ [][NextFine]_vars

\* ------------------------------------------------------------ specification
Next ==
  \/ TryPush
  \/ Push
  \/ Pop
  \/ Truncate
  \/ Clear
  \/ TryInsert
  \/ Insert
  \/ TryExtendFromSlice
  \/ PushUncheckedCall
  \/ SetLenCall
  \/ IndexMutReplace
  \/ SliceReverse
  \/ DropVec
  \/ WithRange
  \/ DrainNext
  \/ DrainNextBack
  \/ DrainDrop
  \/ DrainDropPanics
  \/ DrainForget

Spec == Init /\ [][Next]_vars

\* ================================================================== claims
\* The range of the current cursor and the vector it was created over.
DrainStart == drain.drain_range_start
DrainEnd == drain.tail_start
OrigLen == Len(orig.live)

\* The original elements of [0, s) followed by those of [e, L).
Survivors ==
  SubSeq(orig.live, 1, DrainStart) \o SubSeq(orig.live, DrainEnd + 1, OrigLen)

\* The vector holds [0, s) ++ [e, L) of the original, and nothing else.
Compacted ==
  /\ length = OrigLen - (DrainEnd - DrainStart)
  /\ AsSlice(items, length) = Survivors

\* C1: a drain cursor over [s, e) of a vector of length L <= N that was
\* consumed fully (by any interleaving of next and next_back) and then
\* dropped leaves the vector with length L - (e - s), holding the original
\* [0, s) followed by the original [e, L).
C1_FullDrainCompacts ==
  (/\ last.op = "drain_drop"
   /\ OrigLen <= N
   /\ Len(yields) = DrainEnd - DrainStart) => Compacted

\* C2: a drain cursor over [s, e) that is dropped early, after k < e - s
\* calls of next/next_back, still leaves the vector with length L - (e - s),
\* holding the original [0, s) followed by the original [e, L) (when no
\* destructor panics inside the drop).
C2_EarlyDropCompacts ==
  (/\ last.op = "drain_drop"
   /\ last.idx = 0
   /\ OrigLen <= N
   /\ Len(yields) < DrainEnd - DrainStart) => Compacted

\* The caller has kept the contracts of the unsafe functions it called.
ContractsKept == ~raws.misused

\* C3: in every reachable state the vector's length is between 0 and N
\* (for a caller who keeps the contracts of set_len and push_unchecked).
C3_LengthWithinCapacity == ContractsKept => (0 <= length /\ length <= N)

\* C4: every element placed in the vector is given up exactly once (moved
\* out to the caller or destroyed), never twice; once the vector is
\* destroyed (and the caller leaked no cursor and took no raw step, which
\* can leave elements behind) every element placed was given up;
\* and after a drain cursor is dropped no element sits in two live slots and
\* no element already given up is inside [0, length).
C4_ReleasedExactlyOnce ==
  /\ ContractsKept => \A id \in Elems : released[id] <= 1
  /\ (pc = "dropped" /\ ~leaked /\ raws.n = 0) =>
       \A id \in 1 .. (nextId - 1) : released[id] = 1
  /\ last.op = "drain_drop" =>
       /\ \A i, j \in 0 .. (length - 1) :
            (Read(items, i) \in Elems /\ Read(items, i) = Read(items, j))
              => i = j
       /\ \A i \in 0 .. (length - 1) :
            Read(items, i) \in Elems => released[Read(items, i)] = 0

\* C5: no operation reads or drops a slot that is out of bounds,
\* uninitialized or moved out, and no such slot is exposed inside
\* [0, length).
C5_OnlyLiveSlotsRead ==
  ContractsKept =>
    /\ ~badRead
    /\ drain.state # "live" => \A i \in 0 .. (length - 1) : i \in init

\* The yields of the current cursor taken from the front, and from the back.
IsFront(y) == y.dir = "front"
IsBack(y) == y.dir = "back"
Fronts == SelectSeq(yields, IsFront)
Backs == SelectSeq(yields, IsBack)
YieldedSlots == {yields[j].idx : j \in 1 .. Len(yields)}

\* C6: a drain cursor over [s, e) yields only original elements of [s, e),
\* none of them twice; the calls of next return them in ascending index
\* order from s, the calls of next_back in descending index order from
\* e - 1, under any interleaving; an exhausted cursor has yielded all of
\* [s, e).
C6_DrainYieldsRangeOnce ==
  drain.state # "none" =>
    /\ \A j \in 1 .. Len(yields) :
         /\ DrainStart <= yields[j].idx
         /\ yields[j].idx < DrainEnd
         /\ yields[j].bits = orig.live[yields[j].idx + 1]
    /\ \A k \in 1 .. Len(Fronts) : Fronts[k].idx = DrainStart + k - 1
    /\ \A k \in 1 .. Len(Backs) : Backs[k].idx = DrainEnd - k
    /\ \A i, j \in 1 .. Len(yields) :
         yields[i].idx = yields[j].idx => i = j
    /\ (drain.state = "live" /\ Exhausted(drain)) =>
         YieldedSlots = DrainStart .. (DrainEnd - 1)

\* A cursor over a range that starts after slot 0 was emptied from both
\* ends.
C6_Witness ==
  /\ drain.state = "live"
  /\ Exhausted(drain)
  /\ DrainStart > 0
  /\ Len(Fronts) > 0
  /\ Len(Backs) > 0

\* len() of a live cursor is what is left of the range.
C7_LenIsRemainder ==
  drain.state = "live" =>
    /\ DrainLen(drain) >= 0
    /\ DrainLen(drain) = (DrainEnd - DrainStart) - Len(yields)

\* A call of next or next_back returns an element exactly when len() > 0
\* (and len() is then one less); at len() = 0 it returns nothing and changes
\* nothing.
C7_NextStep ==
  last'.op \in {"next", "next_back"} =>
    /\ (last'.res = "Some") <=> (DrainLen(drain) > 0)
    /\ last'.res = "Some" => DrainLen(drain') = DrainLen(drain) - 1
    /\ DrainLen(drain) = 0 =>
         /\ last'.res = "None"
         /\ UNCHANGED <<items, length, init, pc, drain, released, yields>>

\* C7: len() of a drain cursor over [s, e) is non-negative and equals
\* (e - s) minus the number of elements yielded so far; next and next_back
\* return an element exactly when len() > 0, and at len() = 0 they return
\* nothing and change no state.
C7_ExactSize == []C7_LenIsRemainder /\ [][C7_NextStep]_vars

\* A call on a cursor that had yielded elements and was exhausted.
C7_Witness ==
  /\ drain.state = "live"
  /\ last.op \in {"next", "next_back"}
  /\ last.res = "None"
  /\ Len(yields) > 1

\* C8: when a drain cursor over [s, e) is leaked, after any number of
\* next/next_back calls, the vector has length s and its live sequence is
\* the original [0, s); the cursor read none of those slots and they hold
\* what they held when the cursor was created.
C8_LeakedDrainHidesRange ==
  drain.state = "leaked" =>
    /\ length = DrainStart
    /\ AsSlice(items, length) = SubSeq(orig.live, 1, DrainStart)
    /\ \A j \in 1 .. Len(yields) : yields[j].idx >= DrainStart
    /\ \A i \in 0 .. (DrainStart - 1) : (i \in init) <=> (i \in orig.init)

\* A cursor over a non-empty range after slot 0 was leaked after it had
\* yielded.
C8_Witness ==
  /\ drain.state = "leaked"
  /\ DrainStart > 0
  /\ DrainEnd > DrainStart
  /\ Len(yields) > 0

\* The step leaves the vector as it was.
VectorUnchanged ==
  /\ items' = items
  /\ length' = length
  /\ init' = init
  /\ AsSlice(items', length') = AsSlice(items, length)

\* The step ended in a panic that destroyed the item x it was handed, and
\* nothing else; when x's destructor panicked in turn, the process aborted.
PanicDestroyed(res, x) ==
  /\ \/ last'.res = res /\ pc' = "panicked"
     \/ last'.res = "Abort" /\ pc' = "aborted"
  /\ last'.drops = <<x>>
  /\ released' = Bump(released, x)

C9_FullPushStep ==
  (length = N /\ last'.op \in {"try_push", "push"}) =>
    /\ VectorUnchanged
    /\ last'.op = "try_push" =>
         (last'.res = "Err" /\ last'.ret = nextId /\ released' = released)
    /\ last'.op = "push" => PanicDestroyed("Panic", nextId)

\* C9: try_push(x) on a full vector returns a capacity error carrying x and
\* leaves the length and the live sequence unchanged; push(x) on a full
\* vector panics without changing the vector (the unwinding destroys x, and
\* the process aborts if x's destructor panics then).
C9_FullPushRejected == [][C9_FullPushStep]_vars

\* A try_push was rejected by a full vector.
C9_Witness ==
  /\ last.op = "try_push"
  /\ last.res = "Err"
  /\ last.ret = nextId
  /\ length = N

\* C10: try_insert(i, x) with i <= length on a full vector returns a
\* capacity error carrying x and leaves the vector unchanged; no try_
\* mutator that reports a capacity failure changes the vector.
C10_FailedTryStep ==
  /\ (length = N /\ last'.op = "try_insert" /\ last'.idx <= length) =>
       /\ last'.res = "Err"
       /\ last'.ret = nextId
       /\ VectorUnchanged
  /\ (/\ last'.op \in {"try_push", "try_insert", "try_extend_from_slice"}
      /\ last'.res = "Err") => (VectorUnchanged /\ pc' = pc)

C10_FailedTryIsAtomic == [][C10_FailedTryStep]_vars

\* A try_insert before the end of a full vector was rejected.
C10_Witness ==
  /\ last.op = "try_insert"
  /\ last.res = "Err"
  /\ last.idx < length
  /\ length = N

\* The slice of other_len fresh elements is appended whole by the step.
C11_Appended(other_len) ==
  /\ length' = length + other_len
  /\ AsSlice(items', length') = AsSlice(items, length) \o OtherSlice(other_len)
  /\ \A i \in length .. (length + other_len - 1) : i \in init'

C11_ExtendStep ==
  (last'.op = "try_extend_from_slice" /\ length <= N) =>
    /\ (last'.res = "Ok") <=> (last'.idx <= N - length)
    /\ last'.res = "Ok" => C11_Appended(last'.idx)
    /\ last'.res # "Ok" =>
         /\ last'.res = "Err"
         /\ VectorUnchanged
         /\ pc' = pc

\* C11: try_extend_from_slice(other), on a vector whose length is within
\* its capacity, succeeds exactly when other.len() <= N - length; on success
\* the live sequence is the old one followed by all of other in order and
\* the length has grown by other.len(); on failure it returns a capacity
\* error and the length and live sequence are unchanged (no prefix of other
\* is appended).
C11_ExtendAllOrNothing == [][C11_ExtendStep]_vars

\* A slice of two elements was appended and filled the vector exactly.
C11_Witness ==
  /\ last.op = "try_extend_from_slice"
  /\ last.res = "Ok"
  /\ last.idx = MaxSlice
  /\ length = N
  /\ AsSlice(items, length)[N] = nextId - 1

\* C12: starting from an empty vector, after any sequence of k <= N pushes,
\* len() == k, is_full() holds exactly when k == N, remaining_capacity()
\* == N - k, and as_slice() equals the pushed values in push order.
C12_PushesFromEmpty ==
  (pushed.pure /\ ContractsKept) =>
    LET k == Len(pushed.vals)
    IN  /\ k <= N
        /\ length = k
        /\ IsFull(length) <=> (k = N)
        /\ RemainingCapacity(length) = N - k
        /\ AsSlice(items, length) = pushed.vals
        /\ \A j \in 1 .. k : pushed.vals[j] \in Elems

\* N pushes filled an empty vector.
C12_Witness ==
  /\ pushed.pure
  /\ Len(pushed.vals) = N
  /\ last.op \in {"push", "try_push"}
  /\ last.res = "Ok"

C13_PopStep ==
  last'.op = "pop" =>
    IF length > 0
    THEN /\ last'.res = "Some"
         /\ last'.ret = AsSlice(items, length)[length]
         /\ length' = length - 1
         /\ AsSlice(items', length') = SubSeq(AsSlice(items, length), 1, length - 1)
         /\ (length - 1) \notin init'
         /\ pc' = pc
    ELSE /\ last'.res = "None"
         /\ VectorUnchanged
         /\ released' = released
         /\ pc' = pc

\* C13: pop() on a vector of length k > 0 returns the element previously at
\* index k-1, sets the length to k-1 and leaves the elements at [0, k-1)
\* unchanged; pop() on an empty vector returns nothing and leaves the vector
\* unchanged.
C13_PopTakesLast == [][C13_PopStep]_vars

\* A pop took the last of three elements.
C13_Witness ==
  /\ last.op = "pop"
  /\ last.res = "Some"
  /\ last.ret \in Elems
  /\ length = N - 1
  /\ released[last.ret] = 1

\* The sequence s with x put in before its element number i + 1.
C14_Inserted(s, i, x) == SubSeq(s, 1, i) \o <<x>> \o SubSeq(s, i + 1, Len(s))

C14_InsertStep ==
  (last'.op \in {"insert", "try_insert"} /\ length < N /\ last'.idx <= length) =>
    /\ last'.res = "Ok"
    /\ length' = length + 1
    /\ AsSlice(items', length') = C14_Inserted(AsSlice(items, length), last'.idx, nextId)
    /\ \A i \in 0 .. length :
         (i \in init') <=> \/ i = last'.idx
                           \/ (i < last'.idx /\ i \in init)
                           \/ (i > last'.idx /\ (i - 1) \in init)
    /\ released' = released
    /\ pc' = pc

\* C14: for a vector of length k < N and any 0 <= i <= k, insert(i, x)
\* yields a vector of length k + 1 in which index i holds x, the elements
\* previously at [i, k) are at [i+1, k+1) in the same order and those at
\* [0, i) are unchanged; the shift loses and duplicates no element.
C14_InsertShifts == [][C14_InsertStep]_vars

\* An element was inserted at the front of a vector of two.
C14_Witness ==
  /\ last.op \in {"insert", "try_insert"}
  /\ last.res = "Ok"
  /\ last.idx = 0
  /\ length = N
  /\ Read(items, 0) = nextId - 1

\* How often the value id occurs in the sequence s.
C15_Count(s, id) == Cardinality({j \in 1 .. Len(s) : s[j] = id})

C15_TruncateStep ==
  last'.op \in {"truncate", "clear"} =>
    LET m == last'.idx
        k == length
        old == AsSlice(items, length)
        cut == SubSeq(old, m + 1, k)
        done == last'.drops
    IN  /\ last'.op = "clear" => m = 0
        /\ IF m < k
           THEN /\ length' = m
                /\ AsSlice(items', length') = SubSeq(old, 1, m)
                /\ IF last'.res = "Abort"
                   THEN /\ Len(done) >= 2
                        /\ Len(done) <= Len(cut)
                        /\ done = SubSeq(cut, 1, Len(done))
                        /\ pc' = "aborted"
                   ELSE /\ done = cut
                        /\ last'.res \in {"Ok", "Panic"}
                        /\ pc' = (IF last'.res = "Panic" THEN "panicked" ELSE pc)
                /\ \A id \in Elems :
                     released'[id] =
                       Min(released[id] + C15_Count(done, id), MaxCount)
                /\ \A i \in m .. (m + Len(done) - 1) : i \notin init'
                /\ \A i \in 0 .. (m - 1) : (i \in init') <=> (i \in init)
           ELSE /\ VectorUnchanged
                /\ last'.res = "Ok"
                /\ pc' = pc
                /\ last'.drops = <<>>
                /\ released' = released

\* C15: truncate(m) on a vector of length k >= m yields a vector of length m
\* holding the original first m elements, and each element of [m, k) is
\* destroyed exactly once, in index order; truncate(m) with m >= k changes
\* nothing and destroys nothing; clear() behaves as truncate(0).  A
\* destructor that panics does not change this: the others still run and
\* the panic leaves truncate afterwards.  Only when a second destructor
\* panics too does the process abort there, with the elements before it
\* destroyed once each, in index order.
C15_TruncateDropsTail == [][C15_TruncateStep]_vars

\* A truncate cut two elements off a vector of three.
C15_Witness ==
  /\ last.op = "truncate"
  /\ last.idx = N - 2
  /\ Len(last.drops) = 2
  /\ last.drops[1] \in Elems
  /\ last.drops[2] \in Elems
  /\ released[last.drops[1]] = 1
  /\ released[last.drops[2]] = 1
  /\ length = N - 2

\* The array [T; N] handed to From: the caller's elements 1 .. N.
C16_Array == [j \in 1 .. N |-> j]

\* C16: constructing from a fully-populated array of exactly N elements
\* yields a vector with len() == N and as_slice() equal to the array's
\* contents in order; every element is owned exactly once afterwards (each
\* sits in exactly one owned slot and none has been released).
C16_FromArray ==
  last.op = "from" =>
    /\ length = N
    /\ AsSlice(items, length) = C16_Array
    /\ init = Slots
    /\ \A j \in 1 .. N :
         /\ Cardinality({i \in init : Read(items, i) = C16_Array[j]}) = 1
         /\ C16_Array[j] \in Elems => released[C16_Array[j]] = 0
    /\ pc = "alive"

\* A vector was made from an array and nothing else has happened to it.
C16_Witness ==
  /\ last.op = "from"
  /\ length = N
  /\ Read(items, N - 1) = C16_Array[N]

\* The live sequences of the two vectors are equal, slot by slot.
C17_LiveEqual ==
  /\ length = other_vec.length
  /\ \A i \in 0 .. (length - 1) : Read(items, i) = other_vec.items[i]

\* C17: two vectors, of capacities N and M and with different stale contents
\* at and beyond their lengths, compare equal exactly when their live
\* sequences are equal, and equal vectors hash identically; neither result
\* depends on the capacity or on a slot at an index >= the length.
C17_EqIsLiveEq ==
  /\ last.op = "eq" => ((last.res = "Equal") <=> C17_LiveEqual)
  /\ (last.op = "hash" /\ C17_LiveEqual) => last.res = "Same"

\* Vectors of capacities N and M with the same live element and different
\* stale slots behind it compared equal.
C17_Witness ==
  /\ last.op = "eq"
  /\ last.res = "Equal"
  /\ N # M
  /\ length = 1
  /\ Read(items, 1) \in Elems
  /\ other_vec.items[1] # Read(items, 1)

\* C18: when a drain cursor over [s, e) is created on a vector of length L,
\* its tail_length is the number of elements at [e, L), and the length that
\* its drop restores, drain_range_start + tail_length, is L - (e - s).
C18_TailLengthIsTail ==
  drain.state = "live" =>
    /\ drain.tail_length = OrigLen - DrainEnd
    /\ RestoredLen(drain) = OrigLen - (DrainEnd - DrainStart)

C19_OutOfBoundsStep ==
  (last'.op \in {"try_insert", "insert"} /\ last'.idx > length) =>
    /\ PanicDestroyed("OutOfBounds", nextId)
    /\ VectorUnchanged

\* C19: try_insert(i, x) and insert(i, x) with i > length always end in the
\* fatal IndexOutOfBounds abort, whether or not the vector is full (the
\* bounds check precedes the capacity check), and the length and the live
\* elements are unchanged when the abort is raised.  The unwinding destroys
\* x, no element of the vector; the process aborts if x's destructor
\* panics then.
C19_BoundsBeforeCapacity == [][C19_OutOfBoundsStep]_vars

\* A try_insert past the end of a full vector aborted.
C19_Witness ==
  /\ last.op = "try_insert"
  /\ last.res = "OutOfBounds"
  /\ last.idx > length
  /\ length = N
  /\ pc = "panicked"

\* C20: pop and truncate lower the length before they move out or destroy
\* any element: in every intermediate state, also while an element's
\* destructor has been interrupted part-way through truncate, every slot
\* inside [0, length) still owns its value (none was destroyed or moved
\* out), the slots still to be dropped lie at or above the length, and no
\* element is given up twice, not by a later drop of the vector either.
C20_LenLoweredFirst ==
  /\ \A i \in 0 .. (length - 1) : i \in init
  /\ pc = "truncating" => length <= work.lo
  /\ pc = "popping" => length \in init
  /\ \A id \in Elems : released[id] <= 1
  /\ ~badRead
  /\ pc = "dropped" => init = {}

\* A truncate of a vector that keeps an element is part-way through its
\* tail, and a destructor has panicked.
C20_Witness ==
  /\ pc = "truncating"
  /\ work.unwinding
  /\ work.lo < work.hi
  /\ length > 0
  /\ Len(last.drops) > 0
  /\ released[last.drops[1]] = 1

====
